---- MODULE Spec2Model ----
(***************************************************************************)
(* A model of two components of sleap:                                     *)
(*   - sleap/nn/model.py: Model.from_config and Model.make_model, the      *)
(*     composition of a backbone with prediction heads by output stride;   *)
(*   - sleap/gui/importvideos.py: the video import flow, ImportVideos.go,  *)
(*     ImportParamDialog, ImportItemWidget and ImportParamWidget.          *)
(* The two components share no state.  Each has its own specification:     *)
(* SpecModel (make_model), SpecConfig (from_config), SpecImport (go and    *)
(* the parameter dialog).                                                  *)
(***************************************************************************)
EXTENDS Integers, Sequences, FiniteSets, TLC

VARIABLES
    backbone,   \* Model.backbone: its output_stride and what make_backbone returns
    heads,      \* Model.heads: the ordered sequence of heads
    stride_attr, \* what reading the attribute "stride" of a head gives
    graphs,     \* the outcome of every make_model call so far, in call order
    config,     \* the ModelConfig of the last from_config call
    skeleton,   \* the skeleton argument of the last from_config call
    built,      \* the outcome of the last from_config call
    directory,  \* the file names the file picker offers
    result,     \* ImportVideos.result
    dialog,     \* the ImportParamDialog inside go(): its phase and its rows
    returned    \* the outcome of the last go() call: the list returned, or raised

modelVars == <<backbone, heads, stride_attr, graphs>>
configVars == <<config, skeleton, built>>
importVars == <<directory, result, dialog, returned>>
vars ==
    <<backbone, heads, stride_attr, graphs, config, skeleton, built,
      directory, result, dialog, returned>>

(***************************************************************************)
(* Bounds of the model.                                                    *)
(***************************************************************************)
\* the most tensors in a backbone's main-output list
MaxMain == 2
\* the most intermediate-feature lists (stacks) a backbone returns
MaxStacks == 2
\* the most intermediate features in one list
MaxFeats == 2
\* the most make_model calls on one Model
MaxCalls == 2

\* strides of the backbone's main output and of the heads
Strides == {1, 2, 4}
\* strides of the intermediate features
FeatStrides == {1, 2}

\* all sequences over S of length lo..hi
SeqsOf(S, lo, hi) == UNION {[1..n -> S] : n \in lo..hi}

(***************************************************************************)
(* sleap/nn/model.py: the heads and the backbone.                          *)
(***************************************************************************)
\* HEADS: the names of the head classes (type(output).__name__)
HEADS ==
    <<"CentroidConfmapsHead", "SingleInstanceConfmapsHead",
      "CenteredInstanceConfmapsHead", "MultiInstanceConfmapsHead",
      "PartAffinityFieldsHead">>

\* the head-class sequences Model.from_config builds: one head, or the
\* MultiInstance pair
HeadTypeLists ==
    {<<HEADS[i]>> : i \in 1..3} \cup {<<HEADS[4], HEADS[5]>>}

\* a head as make_model reads it: its class name and its output_stride
HeadLists ==
    UNION {{[i \in 1..Len(ts) |-> [type |-> ts[i], output_stride |-> ss[i]]] :
              ss \in [1..Len(ts) -> Strides]} : ts \in HeadTypeLists}

\* IntermediateFeature(tensor, stride); the tensor is named by its place:
\* list k, position j
IntermediateFeature(k, j, s) == [tensor |-> <<"mid", k, j>>, stride |-> s]

\* one list of intermediate features, the k-th a backbone returns
FeatLists(k) ==
    {[j \in 1..Len(ss) |-> IntermediateFeature(k, j, ss[j])] :
        ss \in SeqsOf(FeatStrides, 0, MaxFeats)}

\* what make_backbone returns as x_main: one tensor, or a list of tensors
MainOutputs ==
    {[isTensor |-> TRUE, t |-> <<"main", 0, 1>>]}
    \cup {[isTensor |-> FALSE, ts |-> [i \in 1..n |-> <<"main", 0, i>>]] :
            n \in 1..MaxMain}

\* what make_backbone returns as x_mid: a flat list of intermediate
\* features, or a list of such lists, one per stack, all of one length (the
\* stacks of a backbone have the same layers)
RECURSIVE NestedMids(_, _)
NestedMids(n, len) ==
    IF n = 0 THEN {<<>>}
    ELSE {Append(m, [isFeat |-> FALSE, feats |-> fl]) :
            m \in NestedMids(n - 1, len),
            fl \in {l \in FeatLists(n) : Len(l) = len}}

MidOutputs ==
    {[j \in 1..Len(fl) |-> [isFeat |-> TRUE, feat |-> fl[j]]] : fl \in FeatLists(1)}
    \cup UNION {NestedMids(n, len) : n \in 1..MaxStacks, len \in 0..MaxFeats}

Backbones ==
    [output_stride : Strides, x_main : MainOutputs, x_mid : MidOutputs]

\* Backbone.make_backbone(x_in): the main output and the intermediate features
make_backbone(b) == [x_main |-> b.x_main, x_mid |-> b.x_mid]

\* make_model, lines 154-155: a single main tensor becomes a one-element list
NormMain(x_main) == IF x_main.isTensor THEN <<x_main.t>> ELSE x_main.ts

\* make_model, lines 156-157: a flat list of intermediate features becomes a
\* one-element list of lists; only x_mid[0] is inspected (x_mid is not empty)
NormMid(x_mid) ==
    IF x_mid[1].isFeat
    THEN <<[j \in 1..Len(x_mid) |-> x_mid[j].feat]>>
    ELSE [k \in 1..Len(x_mid) |-> x_mid[k].feats]

Min(S) == CHOOSE m \in S : \A n \in S : m <= n

\* zip(*x_mid), line 179: the j-th group holds the j-th feature of every
\* list, up to the length of the shortest list
Zip(x_mid) ==
    [j \in 1..Min({Len(x_mid[k]) : k \in 1..Len(x_mid)}) |->
        [k \in 1..Len(x_mid) |-> x_mid[k][j]]]

\* tf.keras.layers.Conv2D(kernel_size=1, strides=1, name=f"{type}_{i}")(x):
\* the layer's name (class name, index from 0) and the tensor it is applied to
Conv2D(output, i, x) ==
    [name |-> <<output.type, i>>, kernel_size |-> 1, input |-> x]

\* a variant of MainLayers that treats the main output as a single tensor and
\* projects only its first member
MainLayersFirstOnly(output, x_main) == <<Conv2D(output, 0, x_main[1])>>

\* lines 166-175: one projection per tensor of the main-output list
MainLayers(output, x_main) ==
    [i \in 1..Len(x_main) |-> Conv2D(output, i - 1, x_main[i])]

\* line 181: all members of a group share the stride of the first
StrideAgree(feats) == \A k \in 1..Len(feats) : feats[k].stride = feats[1].stride

\* line 182: the group is at the head's output stride
GroupMatches(feats, output) == feats[1].stride = output.output_stride

\* a variant of ScanMid without the break of line 193: every matching group
\* is projected, not only the first
RECURSIVE ScanMidNoBreak(_, _, _)
ScanMidNoBreak(output, groups, j) ==
    IF j > Len(groups) THEN [error |-> "none", x_head |-> <<>>]
    ELSE IF ~StrideAgree(groups[j])
    THEN [error |-> "AssertionError", x_head |-> <<>>]
    ELSE LET rest == ScanMidNoBreak(output, groups, j + 1)
             here == IF GroupMatches(groups[j], output)
                     THEN [k \in 1..Len(groups[j]) |->
                             Conv2D(output, k - 1, groups[j][k].tensor)]
                     ELSE <<>>
         IN  [error |-> rest.error,
              x_head |-> IF rest.error = "none" THEN here \o rest.x_head ELSE <<>>]

\* a variant of ScanMid without the assertion of line 181: a group is
\* judged by its first member alone
RECURSIVE ScanMidNoAssert(_, _, _)
ScanMidNoAssert(output, groups, j) ==
    IF j > Len(groups) THEN [error |-> "none", x_head |-> <<>>]
    ELSE IF GroupMatches(groups[j], output)
    THEN [error |-> "none",
          x_head |-> [k \in 1..Len(groups[j]) |->
                        Conv2D(output, k - 1, groups[j][k].tensor)]]
    ELSE ScanMidNoAssert(output, groups, j + 1)

\* lines 179-193: scan the groups in order; assert stride agreement, project
\* every member of the first matching group, and stop
RECURSIVE ScanMid(_, _, _)
ScanMid(output, groups, j) ==
    IF j > Len(groups) THEN [error |-> "none", x_head |-> <<>>]
    ELSE IF ~StrideAgree(groups[j])
    THEN [error |-> "AssertionError", x_head |-> <<>>]
    ELSE IF GroupMatches(groups[j], output)
    THEN [error |-> "none",
          x_head |-> [k \in 1..Len(groups[j]) |->
                        Conv2D(output, k - 1, groups[j][k].tensor)]]
    ELSE ScanMid(output, groups, j + 1)

\* line 163: the head is at the stride of the backbone's main output
UsesMain(output, b) == output.output_stride = b.output_stride

\* lines 162-193: the output layers of one head
HeadLayers(output, b, x_main, groups) ==
    IF UsesMain(output, b)
    THEN [error |-> "none", x_head |-> MainLayers(output, x_main)]
    ELSE ScanMid(output, groups, 1)

\* the outcome of a call: a graph with its outputs, or the exception raised
\* (with the head being processed and, for the ValueError of lines 196-199,
\* the stride its message names)
Graph(x_outs) ==
    [status |-> "graph", outputs |-> x_outs, error |-> "none", head |-> 0, named |-> 0]
Raised(e, i, s) ==
    [status |-> "raised", outputs |-> <<>>, error |-> e, head |-> i, named |-> s]

\* lines 160-205: the loop over self.heads, then tf.keras.Model(...).
\* "NoActivation" stands for reaching line 196 with an empty x_head.
RECURSIVE BuildOutputs(_, _, _, _, _, _)
BuildOutputs(b, hs, x_main, groups, i, x_outs) ==
    IF i > Len(hs) THEN Graph(x_outs)
    ELSE LET h == HeadLayers(hs[i], b, x_main, groups)
         IN  IF h.error # "none" THEN Raised(h.error, i, 0)
             ELSE IF Len(h.x_head) = 0 THEN Raised("NoActivation", i, 0)
             ELSE BuildOutputs(b, hs, x_main, groups, i + 1, Append(x_outs, h.x_head))

\* Model.make_model(input_shape), lines 147-205; x_mid[0] of an empty x_mid
\* raises IndexError at line 156
make_model(b, hs) ==
    LET bb == make_backbone(b)
    IN  IF Len(bb.x_mid) = 0 THEN Raised("IndexError", 0, 0)
        ELSE BuildOutputs(b, hs, NormMain(bb.x_main), Zip(NormMid(bb.x_mid)), 1, <<>>)

\* lines 196-199: the message is formatted from output.stride, an attribute
\* other than the output_stride that lines 163 and 182 compare.  The head
\* classes are outside this file: reading it raises AttributeError, or
\* yields the head's output_stride, or yields another value (0 here), and
\* the ValueError names what it yields
StrideAttrs == {"AttributeError", "output_stride", "other"}

NoActivation(r, hs, attr) ==
    IF attr = "AttributeError" THEN Raised("AttributeError", r.head, 0)
    ELSE IF attr = "output_stride"
    THEN Raised("ValueError", r.head, hs[r.head].output_stride)
    ELSE Raised("ValueError", r.head, 0)

Outcome(r, hs, attr) ==
    IF r.error = "NoActivation" THEN NoActivation(r, hs, attr) ELSE r

(***************************************************************************)
(* sleap/nn/model.py: Model.from_config.                                   *)
(***************************************************************************)
\* an optional value: None, or a value
None == [isNone |-> TRUE]
Some(v) == [isNone |-> FALSE, v |-> v]

\* BACKBONE_CONFIG_TO_CLS, lines 44-49
BACKBONE_CONFIG_TO_CLS ==
    [LEAPConfig |-> "LeapCNN", UNetConfig |-> "UNet",
     HourglassConfig |-> "Hourglass", ResNetConfig |-> "ResNetv1"]

\* part names and edges a configuration or a skeleton may hold
PartNames == {<<>>, <<"head">>, <<"head", "thorax">>}
EdgeLists == {<<>>, <<<<"head", "thorax">>>>}
SkeletonNodes == {<<"a", "b">>}
SkeletonEdges == {<<<<"a", "b">>>>}
OptPartNames == {None} \cup {Some(v) : v \in PartNames}
OptEdges == {None} \cup {Some(v) : v \in EdgeLists}

\* config.heads.which_oneof(): the one head configuration that is set
HeadConfigs ==
    {[which |-> "SingleInstanceConfmapsHeadConfig", part_names |-> pn] :
        pn \in OptPartNames}
    \cup {[which |-> "CentroidsHeadConfig"]}
    \cup {[which |-> "CenteredInstanceConfmapsHeadConfig", part_names |-> pn] :
            pn \in OptPartNames}
    \cup {[which |-> "MultiInstanceConfig",
           multi_instance |-> [part_names |-> pn], pafs |-> [edges |-> e]] :
            pn \in OptPartNames, e \in OptEdges}

ModelConfigs ==
    {[backbone |-> b, heads |-> h] :
        b \in DOMAIN BACKBONE_CONFIG_TO_CLS, h \in HeadConfigs}

\* the skeleton argument: None, or a Skeleton with node_names and edge_names
Skeletons ==
    {None} \cup {[isNone |-> FALSE, node_names |-> n, edge_names |-> e] :
                    n \in SkeletonNodes, e \in SkeletonEdges}

\* sleap.nn.data.utils.ensure_list, the converter of Model.heads: a single
\* head becomes a one-element list, a list stays as it is
ensure_list(x) == IF x.isList THEN x.v ELSE <<x.v>>

\* a variant of Resolve that prefers the skeleton's value whenever a skeleton
\* is given
ResolveSkeletonFirst(configured, sk, fallback) ==
    IF ~sk.isNone THEN Some(fallback)
    ELSE IF configured.isNone THEN None
    ELSE Some(configured.v)

\* lines 77-84 (and 93-100, 106-113, 115-122): the configured value when it
\* is not None, else the skeleton's; None stands for the ValueError raised
\* when both are missing.  fallback is read only when a skeleton is given.
Resolve(configured, sk, fallback) ==
    IF configured.isNone
    THEN IF sk.isNone THEN None ELSE Some(fallback)
    ELSE Some(configured.v)

ConfigError == [status |-> "raised", error |-> "ValueError"]

\* cls(backbone=backbone_cls.from_config(backbone_config), heads=heads), line 131
NewModel(c, hs) ==
    [status |-> "model",
     backbone |-> BACKBONE_CONFIG_TO_CLS[c.backbone],
     heads |-> ensure_list(hs)]

\* Model.from_config(config, skeleton), lines 66-131
from_config(c, sk) ==
    LET hc == c.heads
        nodes == IF sk.isNone THEN <<>> ELSE sk.node_names
        edge_names == IF sk.isNone THEN <<>> ELSE sk.edge_names
    IN  IF hc.which = "SingleInstanceConfmapsHeadConfig"
        THEN LET pn == Resolve(hc.part_names, sk, nodes)
             IN  IF pn.isNone THEN ConfigError
                 ELSE NewModel(c, [isList |-> FALSE,
                                   v |-> [type |-> HEADS[2], part_names |-> pn.v]])
        ELSE IF hc.which = "CentroidsHeadConfig"
        THEN NewModel(c, [isList |-> FALSE, v |-> [type |-> HEADS[1]]])
        ELSE IF hc.which = "CenteredInstanceConfmapsHeadConfig"
        THEN LET pn == Resolve(hc.part_names, sk, nodes)
             IN  IF pn.isNone THEN ConfigError
                 ELSE NewModel(c, [isList |-> FALSE,
                                   v |-> [type |-> HEADS[3], part_names |-> pn.v]])
        ELSE LET pn == Resolve(hc.multi_instance.part_names, sk, nodes)
                 e == Resolve(hc.pafs.edges, sk, edge_names)
             IN  IF pn.isNone THEN ConfigError
                 ELSE IF e.isNone THEN ConfigError
                 ELSE NewModel(c, [isList |-> TRUE,
                                   v |-> <<[type |-> HEADS[4], part_names |-> pn.v],
                                           [type |-> HEADS[5], edges |-> e.v]>>])

\* a call of Model.from_config
FromConfig ==
    /\ \E c \in ModelConfigs, sk \in Skeletons :
        /\ config' = [set |-> TRUE, v |-> c]
        /\ skeleton' = sk
        /\ built' = from_config(c, sk)
    /\ UNCHANGED <<modelVars, importVars>>

(***************************************************************************)
(* sleap/gui/importvideos.py: import types, file matching, the row widget. *)
(* A file name is a sequence of characters; an options string is a         *)
(* sequence of words, the separating commas being words of their own.      *)
(***************************************************************************)
\* the most file names in one selection of the file picker
MaxFiles == 2
\* go() is called again only while self.result holds at most this many entries
MaxCarried == 1

\* a directory of three files, one per filter group of the file picker and
\* one the "Any Video" filter offers under its second HDF5 extension
VideoFiles ==
    {<<"a", ".", "h", "5">>,
     <<"b", ".", "h", "d", "5", "v">>,
     <<"c", ".", "m", "p", "4">>}

\* a directory with a file of every extension the import types and the
\* filters name, a name without a dot, and the empty name
AnyFiles ==
    VideoFiles
    \cup {<<"d", ".", "a", "v", "i">>,
          <<"e", ".", "h", "d", "f", "5">>,
          <<"g", "h", "5">>,
          <<>>}

\* QFileDialog.getOpenFileNames, lines 52-58: any list of distinct files of
\* the directory, at most MaxFiles of them
Selections(dir) ==
    {fs \in SeqsOf(dir, 0, MaxFiles) :
        \A m \in 1..Len(fs) : \A n \in 1..Len(fs) : fs[m] = fs[n] => m = n}

\* a variant of Split that does not split
SplitNone(s, sep) == <<s>>

\* str.split(sep): the pieces of s between the separators
RECURSIVE Split(_, _)
Split(s, sep) ==
    IF \E i \in 1..Len(s) : s[i] = sep
    THEN LET i == CHOOSE n \in 1..Len(s) :
                    s[n] = sep /\ \A m \in 1..(n - 1) : s[m] # sep
         IN  <<SubSeq(s, 1, i - 1)>> \o Split(SubSeq(s, i + 1, Len(s)), sep)
    ELSE <<s>>

\* str.endswith(suffix)
EndsWith(s, suffix) ==
    /\ Len(suffix) <= Len(s)
    /\ SubSeq(s, Len(s) - Len(suffix) + 1, Len(s)) = suffix

\* str.endswith(tuple): s ends with one of the suffixes
EndsWithAny(s, suffixes) == \E n \in 1..Len(suffixes) : EndsWith(s, suffixes[n])

\* self.import_types, lines 79-108
import_types ==
    <<[video_type |-> "hdf5",
       match |-> <<"h", "5", ",", "h", "d", "f", "5">>,
       video_class |-> "Video.from_hdf5",
       params |-> <<[name |-> "dataset", type |-> "function_menu",
                     options |-> <<"_get_h5_dataset_options">>],
                    [name |-> "input_format", type |-> "radio",
                     options |-> <<"channels_first", ",", "channels_last">>]>>],
      [video_type |-> "mp4",
       match |-> <<"m", "p", "4", ",", "a", "v", "i">>,
       video_class |-> "Video.from_media",
       params |-> <<[name |-> "grayscale", type |-> "check"]>>]>>

\* tuple(import_type["match"].split(",")), line 124, for every import type
MatchSuffixes == [t \in 1..Len(import_types) |-> Split(import_types[t].match, ",")]

\* lines 121-126: the index of the first import type one of whose match
\* suffixes ends the file name; 0 when there is none (this_type is None)
MatchType(file_name) ==
    LET hits == {t \in 1..Len(import_types) :
                    EndsWithAny(file_name, MatchSuffixes[t])}
    IN  IF hits = {} THEN 0 ELSE Min(hits)

\* ImportParamWidget._get_h5_dataset_options, lines 367-384: the paths of the
\* 4-dimensional datasets of the file, [] when the file cannot be opened; the
\* files' contents are the environment's
H5DatasetOptions(file_path) ==
    IF file_path = <<"a", ".", "h", "5">> THEN <<"/box", "/pos">> ELSE <<>>

\* ImportParamWidget.make_layout, lines 298-335: one widget per parameter.
\* A radio group starts with its first option checked, a check box
\* unchecked, a combo box at its first item (index 0: no item)
NewWidget(file_path, param_item) ==
    IF param_item.type = "radio"
    THEN [type |-> "radio", options |-> Split(param_item.options, ","), index |-> 1]
    ELSE IF param_item.type = "check"
    THEN [type |-> "check", checked |-> FALSE]
    ELSE [type |-> "function_menu", options |-> H5DatasetOptions(file_path),
          index |-> IF H5DatasetOptions(file_path) = <<>> THEN 0 ELSE 1]

make_layout(file_path, import_type) ==
    LET param_list == import_type.params
        names == {param_list[n].name : n \in 1..Len(param_list)}
    IN  [name \in names |->
            NewWidget(file_path,
                      param_list[CHOOSE n \in 1..Len(param_list) :
                                    param_list[n].name = name])]

\* checkedButton().text(), isChecked(), currentText(): lines 358-363
WidgetValue(w) ==
    IF w.type = "radio" THEN w.options[w.index]
    ELSE IF w.type = "check" THEN w.checked
    ELSE IF w.index = 0 THEN "" ELSE w.options[w.index]

\* a variant of get_values that returns the parameters' entries alone
get_values_params_only(row) ==
    LET param_list == import_types[row.import_type].params
        names == {param_list[n].name : n \in 1..Len(param_list)}
    IN  [key \in names |-> WidgetValue(row.widget_elements[key])]

\* ImportParamWidget.get_values, lines 337-365: "file" and one entry per
\* parameter of the import type
get_values(row) ==
    LET param_list == import_types[row.import_type].params
        names == {param_list[n].name : n \in 1..Len(param_list)}
    IN  [key \in {"file"} \cup names |->
            IF key = "file" THEN row.file_path
            ELSE WidgetValue(row.widget_elements[key])]

\* the video object video_class(**video_params) constructs
Video(video_class, video_params) ==
    [isNone |-> FALSE, video_class |-> video_class, params |-> video_params]

\* what the environment lets an attempt to show a preview do: the
\* constructor, load_video and plot all return, or one of them raises
VideoOutcomes == {"ok", "raises"}

\* a variant of update_video whose except branch leaves self.video as it was
update_video_keeps_video(row, outcome) ==
    LET video_params == get_values(row)
        video_class == import_types[row.import_type].video_class
    IN  IF outcome = "ok"
        THEN [row EXCEPT !.video = Video(video_class, video_params),
                         !.preview = "image",
                         !.attempt = [params |-> video_params, ok |-> TRUE]]
        ELSE [row EXCEPT !.preview = "clear",
                         !.attempt = [params |-> video_params, ok |-> FALSE]]

\* ImportItemWidget.update_video, lines 243-262, with
\* VideoPreviewWidget.load_video and plot, lines 438-459: construct the video
\* from the current values and show its first frame; on any exception set
\* self.video to None and clear the preview.  attempt records the values the
\* last call used and whether it got through.
update_video(row, outcome) ==
    LET video_params == get_values(row)
        video_class == import_types[row.import_type].video_class
    IN  IF outcome = "ok"
        THEN [row EXCEPT !.video = Video(video_class, video_params),
                         !.preview = "image",
                         !.attempt = [params |-> video_params, ok |-> TRUE]]
        ELSE [row EXCEPT !.video = None,
                         !.preview = "clear",
                         !.attempt = [params |-> video_params, ok |-> FALSE]]

\* ImportItemWidget.__init__, lines 185-216: the check box starts checked,
\* the options enabled, and update_video runs once
ImportItemWidget(file_path, this_type, outcome) ==
    update_video(
        [file_path |-> file_path,
         import_type |-> this_type,
         video |-> None,
         enabled |-> TRUE,
         options_enabled |-> TRUE,
         widget_elements |-> make_layout(file_path, import_types[this_type]),
         preview |-> "empty",
         attempt |-> [params |-> <<>>, ok |-> FALSE]],
        outcome)

\* a variant of BuildRows that skips a file without a matching import type
RECURSIVE BuildRowsSkipUnmatched(_, _, _, _)
BuildRowsSkipUnmatched(file_names, outcomes, n, import_widgets) ==
    IF n > Len(file_names) THEN [raised |-> FALSE, import_widgets |-> import_widgets]
    ELSE IF file_names[n] = <<>> \/ MatchType(file_names[n]) = 0
    THEN BuildRowsSkipUnmatched(file_names, outcomes, n + 1, import_widgets)
    ELSE BuildRowsSkipUnmatched(file_names, outcomes, n + 1,
            Append(import_widgets,
                   ImportItemWidget(file_names[n], MatchType(file_names[n]),
                                    outcomes[n])))

\* ImportParamDialog.__init__, lines 119-132: an empty name is skipped, a
\* matched file gets a row, an unmatched file raises
RECURSIVE BuildRows(_, _, _, _)
BuildRows(file_names, outcomes, n, import_widgets) ==
    IF n > Len(file_names) THEN [raised |-> FALSE, import_widgets |-> import_widgets]
    ELSE IF file_names[n] = <<>>
    THEN BuildRows(file_names, outcomes, n + 1, import_widgets)
    ELSE IF MatchType(file_names[n]) = 0
    THEN [raised |-> TRUE, import_widgets |-> <<>>]
    ELSE BuildRows(file_names, outcomes, n + 1,
            Append(import_widgets,
                   ImportItemWidget(file_names[n], MatchType(file_names[n]),
                                    outcomes[n])))

\* a variant of is_enabled that asks whether the row has a valid preview
is_enabled_if_video(row) == ~row.video.isNone

\* ImportItemWidget.is_enabled, lines 218-227
is_enabled(row) == row.enabled

\* ImportItemWidget.get_data, lines 229-241
item_get_data(row) ==
    [params |-> get_values(row),
     video_type |-> import_types[row.import_type].video_type,
     video_class |-> import_types[row.import_type].video_class]

\* ImportParamDialog.get_data, lines 152-167: append the data of every
\* enabled row, in row order, to import_result
RECURSIVE get_data(_, _, _)
get_data(import_widgets, n, import_result) ==
    IF n > Len(import_widgets) THEN import_result
    ELSE get_data(import_widgets, n + 1,
                  IF is_enabled(import_widgets[n])
                  THEN Append(import_result, item_get_data(import_widgets[n]))
                  ELSE import_result)

\* the dialog of the current (or last) go() call: its phase, the selection
\* it was made for, its rows (after Import: as they were accepted), and how
\* many entries self.result held when the call began
Dialog(phase, file_names, import_widgets, carried) ==
    [phase |-> phase, files |-> file_names, rows |-> import_widgets,
     carried |-> carried]

\* ImportVideos.go, lines 50-62, up to importer.exec_(): the file picker
\* returns file_names; with no file go() returns self.result at once;
\* otherwise the dialog is constructed, which raises out of go() or opens
\* the dialog
GoSelect ==
    /\ dialog.phase # "open"
    /\ Len(result) <= MaxCarried
    /\ \E file_names \in Selections(directory) :
        IF Len(file_names) = 0
        THEN /\ dialog' = Dialog("unselected", file_names, <<>>, Len(result))
             /\ returned' = [status |-> "value", value |-> result]
        ELSE IF BuildRows(file_names, [n \in 1..Len(file_names) |-> "ok"],
                          1, <<>>).raised
        THEN /\ dialog' = Dialog("failed", file_names, <<>>, Len(result))
             /\ returned' = [status |-> "raised", value |-> <<>>]
        ELSE \E outcomes \in [1..Len(file_names) -> VideoOutcomes] :
             /\ dialog' = Dialog("open", file_names,
                                 BuildRows(file_names, outcomes, 1, <<>>).import_widgets,
                                 Len(result))
             /\ returned' = [status |-> "pending", value |-> <<>>]
    /\ UNCHANGED <<directory, result>>
    /\ UNCHANGED <<modelVars, configVars>>

\* the user toggles a row's enable check box: lines 204-206 enable the
\* row's options exactly when the box is checked
ToggleEnabled ==
    /\ dialog.phase = "open"
    /\ \E r \in 1..Len(dialog.rows) :
        LET row == dialog.rows[r]
        IN  dialog' = [dialog EXCEPT !.rows[r] =
                          [row EXCEPT !.enabled = ~row.enabled,
                                      !.options_enabled = ~row.enabled]]
    /\ UNCHANGED <<directory, result, returned>>
    /\ UNCHANGED <<modelVars, configVars>>

\* the user picks another radio button of an enabled row: buttonToggled
\* fires for the button released and for the button pressed (line 318), and
\* each emission runs update_video (line 215)
ChooseRadio ==
    /\ dialog.phase = "open"
    /\ \E r \in 1..Len(dialog.rows) :
       \E name \in DOMAIN dialog.rows[r].widget_elements :
        LET row == dialog.rows[r]
            w == row.widget_elements[name]
        IN  /\ row.options_enabled
            /\ w.type = "radio"
            /\ \E i \in (1..Len(w.options)) \ {w.index} :
               \E o1 \in VideoOutcomes, o2 \in VideoOutcomes :
                dialog' = [dialog EXCEPT !.rows[r] =
                    update_video(
                        update_video(
                            [row EXCEPT !.widget_elements[name].index = i], o1),
                        o2)]
    /\ UNCHANGED <<directory, result, returned>>
    /\ UNCHANGED <<modelVars, configVars>>

\* the user flips a check-box parameter of an enabled row: stateChanged
\* (line 322) runs update_video
FlipCheck ==
    /\ dialog.phase = "open"
    /\ \E r \in 1..Len(dialog.rows) :
       \E name \in DOMAIN dialog.rows[r].widget_elements :
        LET row == dialog.rows[r]
            w == row.widget_elements[name]
        IN  /\ row.options_enabled
            /\ w.type = "check"
            /\ \E o \in VideoOutcomes :
                dialog' = [dialog EXCEPT !.rows[r] =
                    update_video(
                        [row EXCEPT !.widget_elements[name].checked = ~w.checked],
                        o)]
    /\ UNCHANGED <<directory, result, returned>>
    /\ UNCHANGED <<modelVars, configVars>>

\* the user picks another item of a combo box of an enabled row:
\* currentIndexChanged (line 331) runs update_video
SelectMenuItem ==
    /\ dialog.phase = "open"
    /\ \E r \in 1..Len(dialog.rows) :
       \E name \in DOMAIN dialog.rows[r].widget_elements :
        LET row == dialog.rows[r]
            w == row.widget_elements[name]
        IN  /\ row.options_enabled
            /\ w.type = "function_menu"
            /\ \E i \in (1..Len(w.options)) \ {w.index} :
               \E o \in VideoOutcomes :
                dialog' = [dialog EXCEPT !.rows[r] =
                    update_video([row EXCEPT !.widget_elements[name].index = i], o)]
    /\ UNCHANGED <<directory, result, returned>>
    /\ UNCHANGED <<modelVars, configVars>>

\* the user presses Import: accepted runs importer.get_data(self.result)
\* (line 61), exec_() returns and go() returns self.result (line 63)
Accept ==
    /\ dialog.phase = "open"
    /\ result' = get_data(dialog.rows, 1, result)
    /\ returned' = [status |-> "value", value |-> result']
    /\ dialog' = [dialog EXCEPT !.phase = "accepted"]
    /\ UNCHANGED directory
    /\ UNCHANGED <<modelVars, configVars>>

\* the user presses Cancel: exec_() returns and go() returns self.result;
\* the rows are discarded with the dialog
Reject ==
    /\ dialog.phase = "open"
    /\ returned' = [status |-> "value", value |-> result]
    /\ dialog' = Dialog("rejected", dialog.files, <<>>, dialog.carried)
    /\ UNCHANGED <<directory, result>>
    /\ UNCHANGED <<modelVars, configVars>>

NextImport ==
    \/ GoSelect
    \/ ToggleEnabled
    \/ ChooseRadio
    \/ FlipCheck
    \/ SelectMenuItem
    \/ Accept
    \/ Reject

\* a variant of MakeModel that consumes self.heads while it builds the outputs
MakeModelPopsHeads ==
    /\ Len(graphs) < MaxCalls
    /\ graphs' = Append(graphs, Outcome(make_model(backbone, heads), heads, stride_attr))
    /\ heads' = Tail(heads)
    /\ UNCHANGED <<backbone, stride_attr>>
    /\ UNCHANGED <<configVars, importVars>>

\* a call of make_model on the Model: self.backbone and self.heads are read,
\* never assigned
MakeModel ==
    /\ Len(graphs) < MaxCalls
    /\ graphs' = Append(graphs, Outcome(make_model(backbone, heads), heads, stride_attr))
    /\ UNCHANGED <<backbone, heads, stride_attr>>
    /\ UNCHANGED <<configVars, importVars>>


\* a Model not yet used, no from_config call yet, and
\* ImportVideos.__init__ (lines 36-37: self.result = []) with go() not yet
\* called
IdleBackbone ==
    [output_stride |-> 1,
     x_main |-> [isTensor |-> TRUE, t |-> <<"main", 0, 1>>],
     x_mid |-> <<>>]
NoConfig == [set |-> FALSE]
NotBuilt == [status |-> "none"]
NoDialog == Dialog("none", <<>>, <<>>, 0)
NotReturned == [status |-> "none", value |-> <<>>]

\* make_model on any Model(backbone, heads)
InitModel ==
    /\ backbone \in Backbones
    /\ heads \in HeadLists
    /\ stride_attr \in StrideAttrs
    /\ graphs = <<>>
    /\ config = NoConfig /\ skeleton = None /\ built = NotBuilt
    /\ directory = {} /\ result = <<>> /\ dialog = NoDialog /\ returned = NotReturned

SpecModel == InitModel /\ [][MakeModel]_vars

InitConfig ==
    /\ backbone = IdleBackbone /\ heads = <<>> /\ graphs = <<>>
    /\ stride_attr = "AttributeError"
    /\ config = NoConfig /\ skeleton = None /\ built = NotBuilt
    /\ directory = {} /\ result = <<>> /\ dialog = NoDialog /\ returned = NotReturned

\* from_config on any configuration and skeleton
SpecConfig == InitConfig /\ [][FromConfig]_vars

InitImport ==
    /\ backbone = IdleBackbone /\ heads = <<>> /\ graphs = <<>>
    /\ stride_attr = "AttributeError"
    /\ config = NoConfig /\ skeleton = None /\ built = NotBuilt
    /\ directory = VideoFiles
    /\ result = <<>> /\ dialog = NoDialog /\ returned = NotReturned

\* go() on one ImportVideos object, any number of times, the user editing
\* the rows and pressing Import or Cancel
SpecImport == InitImport /\ [][NextImport]_vars

InitPick ==
    /\ backbone = IdleBackbone /\ heads = <<>> /\ graphs = <<>>
    /\ stride_attr = "AttributeError"
    /\ config = NoConfig /\ skeleton = None /\ built = NotBuilt
    /\ directory = AnyFiles
    /\ result = <<>> /\ dialog = NoDialog /\ returned = NotReturned

\* go() on a directory of files of every kind, the user pressing Cancel as
\* soon as the dialog is up: the construction of the dialog
NextPick ==
    \/ GoSelect
    \/ Reject

SpecPick == InitPick /\ [][NextPick]_vars

(***************************************************************************)
(* Properties of make_model, checked under SpecModel.                      *)
(***************************************************************************)
\* the calls so far that returned a graph
GraphCalls == {c \in 1..Len(graphs) : graphs[c].status = "graph"}

\* the groups make_model scans (x_mid is not empty)
Groups == Zip(NormMid(backbone.x_mid))

\* the names of a graph's outputs, head by head
OutputNames(g) ==
    [i \in 1..Len(g.outputs) |->
        [k \in 1..Len(g.outputs[i]) |-> g.outputs[i][k].name]]

\* C1: in every graph make_model returns, a head whose output_stride equals
\* the backbone's output_stride has exactly one 1x1 projection per tensor of
\* the main-output list, in list order, and none on an intermediate feature
C1_MainStrideHeadOnMainOutput ==
    \A c \in GraphCalls : \A i \in 1..Len(heads) :
        heads[i].output_stride = backbone.output_stride =>
            LET out == graphs[c].outputs[i]
                main == NormMain(backbone.x_main)
            IN  /\ Len(out) = Len(main)
                /\ \A k \in 1..Len(out) :
                    /\ out[k].input = main[k]
                    /\ out[k].input[1] = "main"
                    /\ out[k].kernel_size = 1

\* C1's case: a graph was returned for a head at the main stride while an
\* intermediate group has that stride too, and the main output is a list of
\* two tensors
C1_Witness ==
    /\ GraphCalls # {}
    /\ ~backbone.x_main.isTensor /\ Len(backbone.x_main.ts) = 2
    /\ \E i \in 1..Len(heads) :
        /\ heads[i].output_stride = backbone.output_stride
        /\ \E j \in 1..Len(Groups) : \A k \in 1..Len(Groups[j]) :
                Groups[j][k].stride = heads[i].output_stride

\* C2: in every graph make_model returns, a head whose output_stride differs
\* from the backbone's is projected from exactly the members, in member
\* order, of one group at the head's stride, and no earlier group has a
\* member at that stride
C2_OtherStrideHeadOnFirstMatchingGroup ==
    \A c \in GraphCalls : \A i \in 1..Len(heads) :
        heads[i].output_stride # backbone.output_stride =>
            LET out == graphs[c].outputs[i]
                s == heads[i].output_stride
            IN  \E j \in 1..Len(Groups) :
                    /\ \A k \in 1..Len(Groups[j]) : Groups[j][k].stride = s
                    /\ \A jj \in 1..(j - 1) : \A k \in 1..Len(Groups[jj]) :
                            Groups[jj][k].stride # s
                    /\ Len(out) = Len(Groups[j])
                    /\ \A k \in 1..Len(out) :
                        /\ out[k].input = Groups[j][k].tensor
                        /\ out[k].kernel_size = 1

\* C2's case: a graph was returned for a head off the main stride whose
\* matching group is the second one scanned and has two members
C2_Witness ==
    /\ GraphCalls # {}
    /\ \E i \in 1..Len(heads) :
        /\ heads[i].output_stride # backbone.output_stride
        /\ Len(Groups) = 2
        /\ Len(Groups[2]) = 2
        /\ Groups[1][1].stride # heads[i].output_stride
        /\ Groups[2][1].stride = heads[i].output_stride

\* a head no feature map serves: its stride is neither the main output's
\* nor that of a member of any intermediate group (none, when the backbone
\* returns no intermediate features)
Unserved(i) ==
    /\ heads[i].output_stride # backbone.output_stride
    /\ \/ Len(backbone.x_mid) = 0
       \/ \A j \in 1..Len(Groups) : \A k \in 1..Len(Groups[j]) :
            Groups[j][k].stride # heads[i].output_stride

\* C3: whenever some head is served by no feature map, every make_model call
\* raises the ValueError of lines 196-199, naming the stride of such a head
C3_UnservedHeadRaisesValueErrorNamingStride ==
    \A c \in 1..Len(graphs) :
        (\E i \in 1..Len(heads) : Unserved(i)) =>
            /\ graphs[c].status = "raised"
            /\ graphs[c].error = "ValueError"
            /\ \E i \in 1..Len(heads) :
                Unserved(i) /\ graphs[c].named = heads[i].output_stride

\* C5: no make_model call changes the Model's backbone or heads, and every
\* call that returns a graph returns one with Len(heads) output lists whose
\* names are "{type}_{k}" for k = 0, 1, ... in head order, the same names as
\* every other call
C5_RepeatedCallsSameNamesModelUnchanged ==
    [][/\ backbone' = backbone
       /\ heads' = heads
       /\ \A c \in 1..Len(graphs') :
            LET g == graphs'[c]
            IN  g.status = "graph" =>
                    /\ Len(g.outputs) = Len(heads)
                    /\ \A i \in 1..Len(heads) : \A k \in 1..Len(g.outputs[i]) :
                            g.outputs[i][k].name = <<heads[i].type, k - 1>>
                    /\ \A d \in 1..Len(graphs') :
                            /\ graphs'[d].status = "graph"
                            /\ OutputNames(graphs'[d]) = OutputNames(g)]_vars

\* C5's case: make_model was called twice on a two-head Model and returned
\* two graphs, one head having two outputs
C5_Witness ==
    /\ Len(graphs) >= 2
    /\ graphs[1].status = "graph" /\ graphs[2].status = "graph"
    /\ Len(heads) = 2
    /\ \E i \in 1..2 : Len(graphs[2].outputs[i]) = 2

(***************************************************************************)
(* Properties of from_config, checked under SpecConfig.                    *)
(***************************************************************************)
\* the head configuration of the last call leaves names it needs unset
NeedsSkeleton(hc) ==
    \/ /\ hc.which \in {"SingleInstanceConfmapsHeadConfig",
                        "CenteredInstanceConfmapsHeadConfig"}
       /\ hc.part_names = None
    \/ /\ hc.which = "MultiInstanceConfig"
       /\ (hc.multi_instance.part_names = None \/ hc.pafs.edges = None)

\* C4: from_config raises its ValueError exactly when the selected head
\* variant leaves part names (or, for MultiInstance, edges) unset and no
\* skeleton is given; otherwise it returns a Model whose heads carry the
\* configured names when set and the skeleton's node_names / edge_names when
\* not; the Centroid variant always returns a Model
C4_FromConfigFailsIffNamesUnresolvable ==
    config.set =>
        LET hc == config.v.heads
            partsOf(opt) == IF opt = None THEN skeleton.node_names ELSE opt.v
            edgesOf(opt) == IF opt = None THEN skeleton.edge_names ELSE opt.v
        IN  /\ (built.status = "raised") <=> (NeedsSkeleton(hc) /\ skeleton = None)
            /\ (built.status = "model") <=> ~(NeedsSkeleton(hc) /\ skeleton = None)
            /\ hc.which = "CentroidsHeadConfig" => built.status = "model"
            /\ built.status = "model" =>
                /\ built.backbone = BACKBONE_CONFIG_TO_CLS[config.v.backbone]
                /\ hc.which = "SingleInstanceConfmapsHeadConfig" =>
                    built.heads = <<[type |-> "SingleInstanceConfmapsHead",
                                     part_names |-> partsOf(hc.part_names)]>>
                /\ hc.which = "CentroidsHeadConfig" =>
                    built.heads = <<[type |-> "CentroidConfmapsHead"]>>
                /\ hc.which = "CenteredInstanceConfmapsHeadConfig" =>
                    built.heads = <<[type |-> "CenteredInstanceConfmapsHead",
                                     part_names |-> partsOf(hc.part_names)]>>
                /\ hc.which = "MultiInstanceConfig" =>
                    built.heads =
                        <<[type |-> "MultiInstanceConfmapsHead",
                           part_names |-> partsOf(hc.multi_instance.part_names)],
                          [type |-> "PartAffinityFieldsHead",
                           edges |-> edgesOf(hc.pafs.edges)]>>

\* C4's case: with a skeleton, a MultiInstance configuration with edges
\* unset yields a Model built from the configured (empty)
\* part names and the skeleton's edge names
C4_Witness ==
    /\ config.set
    /\ config.v.heads.which = "MultiInstanceConfig"
    /\ config.v.heads.multi_instance.part_names = Some(<<>>)
    /\ config.v.heads.pafs.edges = None
    /\ skeleton # None
    /\ built.status = "model"
    /\ built.heads[1].part_names = <<>>
    /\ built.heads[2].edges = skeleton.edge_names

(***************************************************************************)
(* Properties of the import flow, checked under SpecImport and SpecPick.   *)
(***************************************************************************)
\* the suffixes the import types register ("h5,hdf5" and "mp4,avi")
RegisteredSuffixes ==
    <<{<<"h", "5">>, <<"h", "d", "f", "5">>},
      {<<"m", "p", "4">>, <<"a", "v", "i">>}>>

\* the file name ends with a suffix import type t registers
Matches(file_name, t) == \E e \in RegisteredSuffixes[t] : EndsWith(file_name, e)

\* the rows whose enable check box is checked, in row order
EnabledRows == SelectSeq(dialog.rows, LAMBDA row : row.enabled)

\* the ImportResults of the enabled rows, in row order
EnabledResults == [n \in 1..Len(EnabledRows) |-> item_get_data(EnabledRows[n])]

\* the entries the current call added to self.result
Added == SubSeq(result, dialog.carried + 1, Len(result))

\* C6: a go() call whose dialog was accepted returned exactly the
\* ImportResults of the rows then enabled, and a go() call whose selection
\* was empty or whose dialog was cancelled returned the empty list
C6_GoReturnsThisCallsEnabledRows ==
    /\ dialog.phase = "accepted" => returned.value = EnabledResults
    /\ dialog.phase \in {"unselected", "rejected"} => returned.value = <<>>

\* C7: when every selected file name ends with a registered suffix, the
\* dialog is constructed with one row per file, in the order of the
\* selection, each row of the first import type that registers a suffix of
\* its file
C7_OneRowPerMatchedFileInOrder ==
    (/\ dialog.phase \notin {"none", "unselected"}
     /\ \A n \in 1..Len(dialog.files) :
            \E t \in 1..2 : Matches(dialog.files[n], t))
    => /\ dialog.phase # "failed"
       /\ dialog.phase = "open" =>
            /\ Len(dialog.rows) = Len(dialog.files)
            /\ \A n \in 1..Len(dialog.rows) :
                /\ dialog.rows[n].file_path = dialog.files[n]
                /\ Matches(dialog.files[n], dialog.rows[n].import_type)
                /\ \A t \in 1..(dialog.rows[n].import_type - 1) :
                        ~Matches(dialog.files[n], t)

\* C7's case: the dialog is up for a media file followed by an HDF5 file
C7_Witness ==
    /\ dialog.phase = "open"
    /\ dialog.files = <<<<"d", ".", "a", "v", "i">>, <<"e", ".", "h", "d", "f", "5">>>>
    /\ Len(dialog.rows) = 2
    /\ dialog.rows[1].import_type = 2
    /\ dialog.rows[2].import_type = 1

\* C8: when a selected file (of non-empty name) ends with no registered
\* suffix, wherever it stands in the selection, the construction of the
\* dialog raises: the dialog has no row and is never open, go() returns
\* nothing and self.result is as it was
C8_UnmatchedFileFailsWholeSelection ==
    (/\ dialog.phase \notin {"none", "unselected"}
     /\ \E n \in 1..Len(dialog.files) :
            /\ dialog.files[n] # <<>>
            /\ \A t \in 1..2 : ~Matches(dialog.files[n], t))
    => /\ dialog.phase = "failed"
       /\ dialog.rows = <<>>
       /\ returned.status = "raised"
       /\ Len(result) = dialog.carried

\* C8's case: the unmatched file stands after a matched one, in a go() call
\* on an object whose earlier call delivered a result
C8_Witness ==
    /\ dialog.phase = "failed"
    /\ dialog.files = <<<<"a", ".", "h", "5">>, <<"b", ".", "h", "d", "5", "v">>>>
    /\ returned.status = "raised"
    /\ Len(result) = 1

\* C9: when the dialog is accepted, get_data adds one result per row whose
\* check box is checked, in row order, and none for an unchecked row,
\* whatever the rows' videos are
C9_GetDataFollowsCheckBoxOnly ==
    dialog.phase = "accepted" =>
        /\ Added = EnabledResults
        /\ \A r \in 1..Len(dialog.rows) :
            dialog.rows[r].enabled <=>
                \E k \in 1..Len(Added) :
                    /\ Added[k].params["file"] = dialog.rows[r].file_path
                    /\ Added[k].params = get_values(dialog.rows[r])

\* C9's case: accepted with a disabled row that has a video and an enabled
\* row whose preview failed; only the second is in the result
C9_Witness ==
    /\ dialog.phase = "accepted"
    /\ Len(dialog.rows) = 2
    /\ ~dialog.rows[1].enabled /\ dialog.rows[1].video # None
    /\ dialog.rows[2].enabled /\ dialog.rows[2].video = None
    /\ Len(Added) = 1
    /\ Added[1].params["file"] = dialog.rows[2].file_path

\* C10: in every row of the dialog, the last update_video used the row's
\* current parameter values; if it got through, the row's video is the
\* object constructed from them and the preview shows it; if not, the row's
\* video is None and the preview is cleared
C10_VideoFollowsCurrentValues ==
    dialog.phase \in {"open", "accepted"} =>
        \A r \in 1..Len(dialog.rows) :
            LET row == dialog.rows[r]
            IN  /\ row.attempt.params = get_values(row)
                /\ row.attempt.ok =>
                    /\ row.video =
                        Video(import_types[row.import_type].video_class, get_values(row))
                    /\ row.preview = "image"
                /\ ~row.attempt.ok =>
                    /\ row.video = None
                    /\ row.preview = "clear"

\* C10's case: a row whose parameters were changed from their defaults
\* shows a preview, beside a row whose last attempt failed
C10_Witness ==
    /\ dialog.phase = "open"
    /\ Len(dialog.rows) = 2
    /\ dialog.rows[1].import_type = 1
    /\ get_values(dialog.rows[1])["input_format"] = <<"channels_last">>
    /\ get_values(dialog.rows[1])["dataset"] = "/pos"
    /\ dialog.rows[1].attempt.ok /\ dialog.rows[1].preview = "image"
    /\ ~dialog.rows[2].attempt.ok /\ dialog.rows[2].video = None

\* the names of the parameters each import type declares (lines 79-108)
DeclaredParams == <<{"dataset", "input_format"}, {"grayscale"}>>

\* C11: for every row of the dialog, whatever its form shows, the mapping
\* get_values returns has the key "file", bound to the row's file path, one
\* key per parameter the row's import type declares, and no other key
C11_GetValuesKeys ==
    dialog.phase \in {"open", "accepted"} =>
        \A r \in 1..Len(dialog.rows) :
            LET row == dialog.rows[r]
                values == get_values(row)
            IN  /\ DOMAIN values = {"file"} \cup DeclaredParams[row.import_type]
                /\ values["file"] = row.file_path
                /\ "file" \notin DeclaredParams[row.import_type]

\* C11's case: a row of each import type, both forms edited away from
\* their defaults
C11_Witness ==
    /\ dialog.phase = "open"
    /\ Len(dialog.rows) = 2
    /\ dialog.rows[1].import_type = 1
    /\ dialog.rows[2].import_type = 2
    /\ get_values(dialog.rows[1])["input_format"] = <<"channels_last">>
    /\ get_values(dialog.rows[1])["dataset"] = "/pos"
    /\ get_values(dialog.rows[2])["grayscale"] = TRUE

(***************************************************************************)
(* The stride-agreement assertion of make_model, checked under SpecModel.  *)
(***************************************************************************)
\* the members of a group share one stride
Uniform(feats) == \A k \in 1..Len(feats) : feats[k].stride = feats[1].stride

\* the scan for head i, a head off the main stride, gets to group j: every
\* group before j is uniform and at another stride
ScanReaches(groups, i, j) ==
    /\ heads[i].output_stride # backbone.output_stride
    /\ \A jj \in 1..(j - 1) :
        /\ Uniform(groups[jj])
        /\ groups[jj][1].stride # heads[i].output_stride

\* head i gets its layers: from the main output, or from a uniform group at
\* its stride that its scan gets to
HeadDone(groups, i) ==
    \/ heads[i].output_stride = backbone.output_stride
    \/ \E j \in 1..Len(groups) :
        /\ ScanReaches(groups, i, j)
        /\ Uniform(groups[j])
        /\ groups[j][1].stride = heads[i].output_stride

\* make_model gets to head i: every head before it got its layers
Processed(groups, i) == \A i2 \in 1..(i - 1) : HeadDone(groups, i2)

\* a scan gets to a group whose members differ in stride
ScanMeetsNonUniform(groups) ==
    \E i \in 1..Len(heads) : \E j \in 1..Len(groups) :
        /\ ~Uniform(groups[j])
        /\ ScanReaches(groups, i, j)
        /\ Processed(groups, i)

\* the places j of the groups with a member whose tensor is x
GroupsOf(groups, x) ==
    {j \in 1..Len(groups) : \E m \in 1..Len(groups[j]) : groups[j][m].tensor = x}

\* C12: in every make_model call on a backbone with intermediate features,
\* when the scan for a head off the main stride gets to a group whose
\* members differ in stride, the call raises AssertionError and returns no
\* graph; and in a returned graph no layer is applied to a member of a
\* group that is not uniform or that comes after a group that is not
C12_NonUniformGroupFailsAssertion ==
    (Len(graphs) > 0 /\ Len(backbone.x_mid) > 0) =>
        LET groups == Groups
        IN  /\ ScanMeetsNonUniform(groups) =>
                \A c \in 1..Len(graphs) :
                    /\ graphs[c].status = "raised"
                    /\ graphs[c].error = "AssertionError"
            /\ \A c \in GraphCalls :
                \A i \in 1..Len(heads) : \A k \in 1..Len(graphs[c].outputs[i]) :
                    \A j \in GroupsOf(groups, graphs[c].outputs[i][k].input) :
                        \A jj \in 1..j : Uniform(groups[jj])

\* C12's case: the second head's scan passes a uniform first group and
\* stops on a second group whose first member is at the head's stride and
\* whose other member is not
C12_Witness ==
    /\ Len(graphs) > 0
    /\ Len(backbone.x_mid) > 0
    /\ Len(heads) = 2
    /\ Len(Groups) = 2
    /\ Processed(Groups, 2)
    /\ ScanReaches(Groups, 2, 2)
    /\ ~Uniform(Groups[2])
    /\ Groups[2][1].stride = heads[2].output_stride
    /\ graphs[1].status = "raised"
    /\ graphs[1].error = "AssertionError"
    /\ graphs[1].head = 2

(***************************************************************************)
(* The file picker's filters against the registered import types, checked  *)
(* under SpecPick.                                                         *)
(***************************************************************************)
\* the extensions of the named video filters of line 55:
\* "Any Video (*.h5 *.hd5v *.mp4 *.avi);;HDF5 (*.h5 *.hd5v);;Media Video (*.mp4 *.avi)"
FilterExtensions ==
    {<<".", "h", "5">>, <<".", "h", "d", "5", "v">>,
     <<".", "m", "p", "4">>, <<".", "a", "v", "i">>}

\* the named video filters offer the file
Offered(file_name) == \E e \in FilterExtensions : EndsWith(file_name, e)

\* C13: when every selected file is one the named video filters offer,
\* every file is matched by a registered import type and the construction
\* of the dialog does not fail
C13_OfferedFilesAreMatched ==
    (/\ dialog.phase \notin {"none", "unselected"}
     /\ \A n \in 1..Len(dialog.files) : Offered(dialog.files[n]))
    => /\ \A n \in 1..Len(dialog.files) :
            \E t \in 1..2 : Matches(dialog.files[n], t)
       /\ dialog.phase # "failed"
       /\ returned.status # "raised"

====
